---------------------------- MODULE Spec2Model ----------------------------
(***************************************************************************)
(* Model of Analysis.py: the batch script that loads nine simulation logs  *)
(* (3 controllers x 3 disturbance levels), computes five metrics per log,  *)
(* builds a sorted result table, saves it and renders 3 + 3 + 5 charts.    *)
(*                                                                         *)
(* Units.  Floating point quantities are carried as exact integers:        *)
(*   time             in ticks of 0.1 s   (min_settling_duration = 20)     *)
(*   ez, pos_z        in millimetres      (target_z = 700, threshold = 14) *)
(*   u                in hundredths                                        *)
(* so that the reporting roundings of lines 87-91 are exact operations on  *)
(* integers: RMSE and MAE to 3 decimals = to the millimetre, settling time *)
(* to 1 decimal = to the tick, control energy to 1 decimal = to the tenth, *)
(* overshoot to 2 decimals = to the centimetre.                            *)
(***************************************************************************)
EXTENDS Integers, Sequences, FiniteSets, TLC

VARIABLES
    pc,          \* position of the script: which statement block runs next
    idx,         \* index of the next iteration of the loop that is running
    disk,        \* the input directory: for each run, the state of its log file
    dataframes,  \* line 74: the data frames kept for plotting, keyed by run
    results,     \* lines 31-39: the seven column lists
    results_df,  \* lines 96-100: the sorted table (a sequence of rows)
    saved,       \* the rows of the table file that was written
    lastWrite,   \* the most recent output write: what, how the primary write ended,
                 \* whether the alternate location was writable, where it landed
    nout,        \* number of output files produced so far
    err,         \* the exception that ended the script, "none" while it runs
    df,          \* compute_metrics called on its own: the frame it is given
    metrics      \* compute_metrics called on its own: what it returned

vars == <<pc, idx, disk, dataframes, results, results_df, saved, lastWrite,
          nout, err, df, metrics>>

----------------------------------------------------------------------------
(* Bounds of the model *)

\* longest frame handed to compute_metrics on its own
MaxLen == 5
\* most runs whose log is broken in one execution of the script
MaxFail == 1
\* most rows of an accumulator built in an arbitrary processing order
MaxRows == 3

----------------------------------------------------------------------------
(* Configuration, lines 12-13 and 42 *)

controllers == <<"pid", "fixed_ladrc", "t3_fuzzy_ladrc">>
dist_levels == <<"low", "moderate", "extreme">>

target_z == 700
settling_threshold == 14
min_settling_duration == 20
\* line 51: the default time step 0.2 s, in ticks
default_dt == 2
\* line 60: control_energy = sum(u^2) * 2000; with u in hundredths the sum of
\* squares is in 1e-4, so the energy in tenths is sum * 2000 / 10000 * 10
energy_scale == 2
\* np.inf of line 48: a value above every timestamp of the model
INF == 1000000

Runs == {<<controllers[a], dist_levels[b]>> : a \in 1..3, b \in 1..3}

\* the order of the nested loops of lines 75-76
RunOrder == [k \in 1..9 |-> <<controllers[((k - 1) \div 3) + 1], dist_levels[((k - 1) % 3) + 1]>>]

\* lines 18-28: the candidate file names, as (controller, dist, timestamp)
expected_files ==
    << <<"pid", "low", "20250911_221435">>,
       <<"pid", "moderate", "20250911_221531">>,
       <<"pid", "extreme", "20250911_221608">>,
       <<"fixed_ladrc", "low", "20250911_200850">>,
       <<"fixed_ladrc", "moderate", "20250911_201134">>,
       <<"fixed_ladrc", "extreme", "20250911_201218">>,
       <<"t3_fuzzy_ladrc", "low", "20250911_212239">>,
       <<"t3_fuzzy_ladrc", "moderate", "20250911_212341">>,
       <<"t3_fuzzy_ladrc", "extreme", "20250911_212414">> >>

----------------------------------------------------------------------------
(* Arithmetic helpers *)

Abs(x) == IF x < 0 THEN -x ELSE x

RECURSIVE SumSeq(_)
SumSeq(s) == IF s = <<>> THEN 0 ELSE Head(s) + SumSeq(Tail(s))

RECURSIVE MaxSeq(_)
MaxSeq(s) == IF Len(s) = 1 THEN s[1]
             ELSE LET m == MaxSeq(Tail(s)) IN IF s[1] > m THEN s[1] ELSE m

\* Python int() of the quotient num/den, den # 0: truncation toward zero
IntTrunc(num, den) ==
    LET q == Abs(num) \div Abs(den)
    IN  IF (num < 0) = (den < 0) THEN q ELSE -q

\* Python round() of the non-negative quotient num/den, den > 0: to nearest,
\* a tie going to the even neighbour
RoundHalfEven(num, den) ==
    LET q == num \div den
        r == num % den
    IN  IF 2 * r < den THEN q
        ELSE IF 2 * r > den THEN q + 1
        ELSE IF q % 2 = 0 THEN q ELSE q + 1

\* the largest r' >= r with r' * r' <= num/den, given r * r <= num/den
RECURSIVE FloorSqrtFrom(_, _, _)
FloorSqrtFrom(num, den, r) ==
    IF (r + 1) * (r + 1) * den > num THEN r ELSE FloorSqrtFrom(num, den, r + 1)

\* round(sqrt(num/den)) to the unit, num >= 0, den > 0
RoundSqrt(num, den) ==
    LET lo == FloorSqrtFrom(num, den, 0)
        \* sqrt(num/den) is in [lo, lo + 1); compare it with lo + 1/2
        four == 4 * num
        mid  == (2 * lo + 1) * (2 * lo + 1) * den
    IN  IF four < mid THEN lo
        ELSE IF four > mid THEN lo + 1
        ELSE IF lo % 2 = 0 THEN lo ELSE lo + 1

----------------------------------------------------------------------------
(* Data frames.  A frame is a record [cols, time, ez, u, pos_z]: cols is    *)
(* the set of column names of the CSV header, the four sequences are the   *)
(* columns (empty when the column is absent).                              *)

AllCols == {"time", "ez", "u", "pos_z"}

Frame(t, e, uu, p) == [cols |-> AllCols, time |-> t, ez |-> e, u |-> uu, pos_z |-> p]

NRows(f) == Len(f.time)

\* line 49-51: dt = df['time'].diff().mean(), as the fraction num/den; the
\* mean of the n-1 consecutive differences is (last - first)/(n - 1); it is
\* NaN for fewer than two rows, and line 51 then takes 0.2
dt_num(f) == IF NRows(f) < 2 THEN default_dt ELSE f.time[NRows(f)] - f.time[1]
dt_den(f) == IF NRows(f) < 2 THEN 1 ELSE NRows(f) - 1

\* line 52: int(min_settling_duration / dt) raises when dt = 0 (the quotient
\* is inf, and int(inf) is an OverflowError)
WindowRaises(f) == dt_num(f) = 0

\* line 52: window_size = max(1, int(min_settling_duration / dt))
window_size(f) ==
    LET w == IntTrunc(min_settling_duration * dt_den(f), dt_num(f))
    IN  IF w > 1 THEN w ELSE 1

\* line 55: np.all(np.abs(window) <= settling_threshold) for the window
\* df['ez'].iloc[i : i + w], i counted from 0 as in the source
WindowSettled(f, i, w) ==
    \A k \in (i + 1)..(i + w) : k <= NRows(f) => Abs(f.ez[k]) <= settling_threshold

\* line 53: the indices range(len(df) - window_size) visits
ScanRange(f) == 0..(NRows(f) - window_size(f) - 1)

\* lines 48-57: the scan; np.inf when no visited window is settled
ScanSettling(f) ==
    LET hits == {i \in ScanRange(f) : WindowSettled(f, i, window_size(f))}
    IN  IF hits = {} THEN INF
        ELSE f.time[(CHOOSE i \in hits : \A j \in hits : i <= j) + 1]

\* line 68 without the replacement of np.inf by the last timestamp
SettlingTimeNoSentinel(f) == ScanSettling(f)

\* line 68: the value reported as settling time
SettlingTime(f) ==
    IF ScanSettling(f) # INF THEN ScanSettling(f) ELSE f.time[NRows(f)]

\* line 63 without the clamp max(0, .)
OvershootSigned(f) == MaxSeq([k \in 1..NRows(f) |-> f.pos_z[k] - target_z])

\* line 63: overshoot = max(0, np.max(df['pos_z'] - target_z)); Python's
\* max(0, x) is x only when x > 0
Overshoot(f) ==
    LET m == MaxSeq([k \in 1..NRows(f) |-> f.pos_z[k] - target_z])
    IN  IF m > 0 THEN m ELSE 0

\* line 60
ControlEnergy(f) == SumSeq([k \in 1..NRows(f) |-> f.u[k] * f.u[k]]) * energy_scale

\* lines 42-71.  The result is [raised |-> TRUE] when an exception leaves the
\* function: a column is missing (KeyError at line 44, 45, 49, 54, 60 or 63),
\* dt is 0 (line 52), or the frame has no row (IndexError at line 68).
\* Otherwise the five metrics, unrounded: rmse as the fraction under the
\* square root, mae as a fraction.
compute_metrics(f) ==
    IF f.cols # AllCols \/ WindowRaises(f) \/ NRows(f) = 0
    THEN [raised |-> TRUE]
    ELSE [raised   |-> FALSE,
          rmse_num |-> SumSeq([k \in 1..NRows(f) |-> f.ez[k] * f.ez[k]]),
          mae_num  |-> SumSeq([k \in 1..NRows(f) |-> Abs(f.ez[k])]),
          n        |-> NRows(f),
          settling |-> SettlingTime(f),
          energy   |-> ControlEnergy(f),
          overshoot |-> Overshoot(f)]


----------------------------------------------------------------------------
(* The result accumulator and the table *)

Columns == {"Level", "Controller", "RMSE (m)", "MAE (m)", "Settling Time (s)",
            "Control Energy", "Overshoot (m)"}

\* lines 31-39
EmptyResults == [col \in Columns |-> <<>>]

\* dist.capitalize(), lines 85 and 124
Capitalize(d) ==
    CASE d = "low" -> "Low"
      [] d = "moderate" -> "Moderate"
      [] d = "extreme" -> "Extreme"

\* the conditional expression of lines 86, 118 and 139
Label(c) ==
    IF c = "pid" THEN "PID" ELSE IF c = "fixed_ladrc" THEN "Fixed LADRC" ELSE "T3-FA-LADRC"

\* lines 85-91: the value appended to each column list for run r with metrics m
RowOf(r, m) ==
    [col \in Columns |->
        CASE col = "Level" -> Capitalize(r[2])
          [] col = "Controller" -> Label(r[1])
          [] col = "RMSE (m)" -> RoundSqrt(m.rmse_num, m.n)
          [] col = "MAE (m)" -> RoundHalfEven(m.mae_num, m.n)
          [] col = "Settling Time (s)" -> m.settling
          [] col = "Control Energy" -> m.energy
          [] col = "Overshoot (m)" -> RoundHalfEven(m.overshoot, 10)]

\* lines 85-91: the seven appends
AppendRow(res, r, m) == [col \in Columns |-> Append(res[col], RowOf(r, m)[col])]

\* line 78: the candidates whose name starts with quad_{controller}_{dist}_
csv_candidates(r) == SelectSeq(expected_files, LAMBDA f : f[1] = r[1] /\ f[2] = r[2])

\* lines 78-79: the exception raised before the frame is stored, if any:
\* IndexError when no candidate matches, pd.read_csv's error when the file
\* is absent or cannot be read
LoadRaises(r, file) == csv_candidates(r) = <<>> \/ ~file.exists \/ ~file.readable

\* lines 77-93 with the appends of lines 85-86 moved above the call of line
\* 83: a run that fails inside compute_metrics leaves two lists longer
ProcessRunPartial(res, r, file) ==
    IF LoadRaises(r, file) THEN res
    ELSE LET m == compute_metrics(file.frame)
         IN  IF m.raised
             THEN [res EXCEPT !["Level"] = Append(@, Capitalize(r[2])),
                              !["Controller"] = Append(@, Label(r[1]))]
             ELSE AppendRow(res, r, m)

\* lines 77-93 with an except clause that appends a row of zeros for the run
ProcessRunPlaceholder(res, r, file) ==
    LET zero == [raised |-> FALSE, rmse_num |-> 0, mae_num |-> 0, n |-> 1,
                 settling |-> 0, energy |-> 0, overshoot |-> 0]
    IN  IF LoadRaises(r, file) THEN AppendRow(res, r, zero)
        ELSE LET m == compute_metrics(file.frame)
             IN  IF m.raised THEN AppendRow(res, r, zero) ELSE AppendRow(res, r, m)

\* lines 77-93, the accumulator after one iteration of the loop: nothing is
\* appended when line 78, 79 or 83 raises; the except clause swallows it
ProcessRun(res, r, file) ==
    IF LoadRaises(r, file) THEN res
    ELSE LET m == compute_metrics(file.frame)
         IN  IF m.raised THEN res ELSE AppendRow(res, r, m)

NoFrame == [cols |-> {}, time |-> <<>>, ez |-> <<>>, u |-> <<>>, pos_z |-> <<>>]

\* line 80: the frame is stored as soon as it is read, before line 83 runs
KeepFrame(dfs, r, file) ==
    IF LoadRaises(r, file) THEN dfs
    ELSE [dfs EXCEPT ![r] = [loaded |-> TRUE, frame |-> file.frame]]

\* line 96: pd.DataFrame(results) raises ValueError when the lists differ in length
FrameRaises(res) == \E a, b \in Columns : Len(res[a]) # Len(res[b])

\* line 96: the rows of pd.DataFrame(results)
ToRows(res) == [k \in 1..Len(res["Level"]) |-> [col \in Columns |-> res[col][k]]]

\* lines 97-100: the key function, x.map({...}).fillna(0)
SortKey(x) ==
    CASE x = "Low" -> 1
      [] x = "Moderate" -> 2
      [] x = "Extreme" -> 3
      [] x = "PID" -> 1
      [] x = "Fixed LADRC" -> 2
      [] x = "T3-FA-LADRC" -> 3
      [] OTHER -> 0

\* line 97 with by = ["Controller", "Level"]
RowLEControllerFirst(a, b) ==
    \/ SortKey(a["Controller"]) < SortKey(b["Controller"])
    \/ /\ SortKey(a["Controller"]) = SortKey(b["Controller"])
       /\ SortKey(a["Level"]) <= SortKey(b["Level"])

\* line 97: by = ["Level", "Controller"], ascending: a sorts no later than b
RowLE(a, b) ==
    \/ SortKey(a["Level"]) < SortKey(b["Level"])
    \/ /\ SortKey(a["Level"]) = SortKey(b["Level"])
       /\ SortKey(a["Controller"]) <= SortKey(b["Controller"])

\* x placed after every row of the sorted sequence s that sorts no later
InsertRow(x, s) ==
    LET n == Cardinality({k \in 1..Len(s) : RowLE(s[k], x)})
    IN  SubSeq(s, 1, n) \o <<x>> \o SubSeq(s, n + 1, Len(s))

\* lines 97-100: sort_values on two keys is a stable lexicographic sort
RECURSIVE sort_values(_)
sort_values(s) ==
    IF s = <<>> THEN <<>>
    ELSE InsertRow(s[Len(s)], sort_values(SubSeq(s, 1, Len(s) - 1)))

----------------------------------------------------------------------------
(* Output writes *)

\* how a write to the primary location can end: it succeeds, it raises
\* PermissionError, or it raises another OSError (missing directory, read-only
\* or full file system)
PrimaryOutcomes == {"ok", "PermissionError", "OSError"}
\* whether the alternate location can be written
AltOutcomes == {"ok", "fail"}

\* lines 103-109, 127-130, 146-149, 167-170: try the primary location; only
\* PermissionError is caught, and the write in the except clause is unguarded
SaveWithFallback(p, a) ==
    IF p = "ok" THEN [loc |-> "primary", err |-> "none"]
    ELSE IF p = "PermissionError"
         THEN IF a = "ok" THEN [loc |-> "fallback", err |-> "none"]
              ELSE [loc |-> "none", err |-> "FallbackError"]
    ELSE [loc |-> "none", err |-> p]

WriteRecord(name, p, a) ==
    [out |-> name, primary |-> p, alt |-> IF p = "ok" THEN "untried" ELSE a,
     loc |-> SaveWithFallback(p, a).loc]

NoWrite == [out |-> "none", primary |-> "ok", alt |-> "untried", loc |-> "none"]

----------------------------------------------------------------------------
(* Charts *)

\* lines 115-119 and 136-140: plotting the traces of level d raises KeyError
\* when a stored frame lacks a column the plot reads
PlotRaises(dfs, d, needed) ==
    \E a \in 1..3 :
        /\ dfs[<<controllers[a], d>>].loaded
        /\ ~(needed \subseteq dfs[<<controllers[a], d>>].frame.cols)

\* line 159: the values of one controller's bars
BarValues(rows, label, metric) ==
    LET sel == SelectSeq(rows, LAMBDA row : row["Controller"] = label)
    IN  [k \in 1..Len(sel) |-> sel[k][metric]]

\* line 160: plt.bar(x + i * width, values, width) broadcasts the heights
\* against the len(dist_levels) positions: it raises ValueError unless there
\* are as many heights as positions, or exactly one
BarRaises(rows, metric) ==
    \E a \in 1..3 :
        LET n == Len(BarValues(rows, Label(controllers[a]), metric))
        IN  n # Len(dist_levels) /\ n # 1

\* line 153
metric_names == <<"RMSE (m)", "MAE (m)", "Settling Time (s)", "Control Energy", "Overshoot (m)">>


----------------------------------------------------------------------------
(* The input directory *)

ControllerRank(c) == CHOOSE a \in 1..3 : controllers[a] = c
LevelRank(d) == CHOOSE b \in 1..3 : dist_levels[b] = d

\* The log of run r when it is intact: five samples one second apart, whose
\* error, control input and altitude differ from run to run
Log(r) ==
    LET cr == ControllerRank(r[1])
        lr == LevelRank(r[2])
    IN  Frame(<<0, 10, 20, 30, 40>>,
              <<-30 * lr, 12 + cr, 5 * lr, -cr, 0>>,
              <<10 * cr, 5 * lr, 1, 0, 0>>,
              <<700, 700 + 20 * lr + cr, 690, 700, 700>>)

\* the ways a log can be broken
FailKinds == {"absent", "unreadable", "no_time", "no_ez", "no_u", "no_pos_z",
              "zero_dt", "no_rows"}

WithoutColumn(f, col) ==
    [cols  |-> f.cols \ {col},
     time  |-> IF col = "time" THEN <<>> ELSE f.time,
     ez    |-> IF col = "ez" THEN <<>> ELSE f.ez,
     u     |-> IF col = "u" THEN <<>> ELSE f.u,
     pos_z |-> IF col = "pos_z" THEN <<>> ELSE f.pos_z]

IntactFile(r) == [exists |-> TRUE, readable |-> TRUE, frame |-> Log(r)]

BrokenFile(r, kind) ==
    CASE kind = "absent" -> [exists |-> FALSE, readable |-> FALSE, frame |-> NoFrame]
      [] kind = "unreadable" -> [exists |-> TRUE, readable |-> FALSE, frame |-> NoFrame]
      [] kind = "no_time" -> [IntactFile(r) EXCEPT !.frame = WithoutColumn(Log(r), "time")]
      [] kind = "no_ez" -> [IntactFile(r) EXCEPT !.frame = WithoutColumn(Log(r), "ez")]
      [] kind = "no_u" -> [IntactFile(r) EXCEPT !.frame = WithoutColumn(Log(r), "u")]
      [] kind = "no_pos_z" -> [IntactFile(r) EXCEPT !.frame = WithoutColumn(Log(r), "pos_z")]
      [] kind = "zero_dt" -> [IntactFile(r) EXCEPT !.frame.time = <<7, 7, 7, 7, 7>>]
      [] kind = "no_rows" -> [IntactFile(r) EXCEPT !.frame = Frame(<<>>, <<>>, <<>>, <<>>)]

\* the runs whose log is broken
Failing == {r \in Runs : disk[r] # IntactFile(r)}

----------------------------------------------------------------------------
(* The script *)

NoFrames == [r \in Runs |-> [loaded |-> FALSE, frame |-> NoFrame]]
NoMetrics == [raised |-> FALSE]

Idle ==
    /\ df = NoFrame
    /\ metrics = NoMetrics

Init ==
    /\ pc = "load"
    /\ idx = 1
    /\ \E F \in {S \in SUBSET Runs : Cardinality(S) <= MaxFail} :
         \E kind \in [F -> FailKinds] :
            disk = [r \in Runs |-> IF r \in F THEN BrokenFile(r, kind[r]) ELSE IntactFile(r)]
    /\ dataframes = NoFrames
    /\ results = EmptyResults
    /\ results_df = <<>>
    /\ saved = <<>>
    /\ lastWrite = NoWrite
    /\ nout = 0
    /\ err = "none"
    /\ Idle

Crash(e) ==
    /\ pc' = "crashed"
    /\ err' = e

\* lines 75-93: one iteration of the processing loop
LoadRun ==
    /\ pc = "load"
    /\ LET r == RunOrder[idx] IN
         /\ results' = ProcessRun(results, r, disk[r])
         /\ dataframes' = KeepFrame(dataframes, r, disk[r])
    /\ IF idx < 9 THEN idx' = idx + 1 /\ pc' = pc
       ELSE idx' = 1 /\ pc' = "table"
    /\ UNCHANGED <<disk, results_df, saved, lastWrite, nout, err, df, metrics>>

\* lines 96-102: build, sort and print the table
CreateTable ==
    /\ pc = "table"
    /\ IF FrameRaises(results)
       THEN Crash("ValueError") /\ UNCHANGED results_df
       ELSE /\ results_df' = sort_values(ToRows(results))
            /\ pc' = "save"
            /\ UNCHANGED err
    /\ UNCHANGED <<idx, disk, dataframes, results, saved, lastWrite, nout, df, metrics>>

\* one output write: the outcome of the primary write and the state of the
\* alternate location are the environment's
WriteOutput(name, next_pc, next_idx) ==
    \E p \in PrimaryOutcomes, a \in AltOutcomes :
        LET w == SaveWithFallback(p, a) IN
        /\ lastWrite' = WriteRecord(name, p, a)
        /\ IF w.err = "none"
           THEN /\ nout' = nout + 1
                /\ pc' = next_pc
                /\ idx' = next_idx
                /\ UNCHANGED err
           ELSE /\ Crash(w.err)
                /\ UNCHANGED <<nout, idx>>

\* lines 103-109
SaveTable ==
    /\ pc = "save"
    /\ WriteOutput("table", "fig1", 1)
    /\ saved' = IF pc' = "crashed" THEN saved ELSE results_df
    /\ UNCHANGED <<disk, dataframes, results, results_df, df, metrics>>

\* lines 113-131: one error-vs-time chart
Fig1 ==
    /\ pc = "fig1"
    /\ IF PlotRaises(dataframes, dist_levels[idx], {"time", "ez"})
       THEN Crash("KeyError") /\ UNCHANGED <<idx, lastWrite, nout>>
       ELSE IF idx < 3 THEN WriteOutput("ez_vs_time", "fig1", idx + 1)
            ELSE WriteOutput("ez_vs_time", "fig2", 1)
    /\ UNCHANGED <<disk, dataframes, results, results_df, saved, df, metrics>>

\* lines 134-150: one control-vs-time chart
Fig2 ==
    /\ pc = "fig2"
    /\ IF PlotRaises(dataframes, dist_levels[idx], {"time", "u"})
       THEN Crash("KeyError") /\ UNCHANGED <<idx, lastWrite, nout>>
       ELSE IF idx < 3 THEN WriteOutput("u_vs_time", "fig2", idx + 1)
            ELSE WriteOutput("u_vs_time", "fig3", 1)
    /\ UNCHANGED <<disk, dataframes, results, results_df, saved, df, metrics>>

\* lines 154-171: one bar chart
Fig3 ==
    /\ pc = "fig3"
    /\ IF BarRaises(results_df, metric_names[idx])
       THEN Crash("ValueError") /\ UNCHANGED <<idx, lastWrite, nout>>
       ELSE IF idx < 5 THEN WriteOutput("comparison", "fig3", idx + 1)
            ELSE WriteOutput("comparison", "print", 1)
    /\ UNCHANGED <<disk, dataframes, results, results_df, saved, df, metrics>>

\* line 173: the final statement
Finish ==
    /\ pc = "print"
    /\ pc' = "done"
    /\ UNCHANGED <<idx, disk, dataframes, results, results_df, saved, lastWrite,
                   nout, err, df, metrics>>

Next == LoadRun \/ CreateTable \/ SaveTable \/ Fig1 \/ Fig2 \/ Fig3 \/ Finish

Spec == Init /\ [][Next]_vars


----------------------------------------------------------------------------
(* compute_metrics called on its own, on frames drawn from bounded sets *)

Lengths == 1..MaxLen
\* first timestamps and sampling steps, in ticks (a step of 3 is dt = 0.3 s)
Starts == {0, 5}
Steps == {0, 3, 10, 12, 20, 30}
\* errors in millimetres: outside the band on either side, zero, on the edge
\* of the band, just outside it
EzValues == {-20, 0, 14, 15}
\* altitudes in millimetres: below, at and above the target
PosValues == {650, 700, 705, 760}

UniformTime(t0, step, n) == [k \in 1..n |-> t0 + (k - 1) * step]
Constant(v, n) == [k \in 1..n |-> v]

\* frames whose time and ez columns vary
SettleFrames ==
    {Frame(UniformTime(t0, step, Len(e)), e, Constant(0, Len(e)), Constant(target_z, Len(e))) :
        t0 \in Starts, step \in Steps, e \in UNION {[1..n -> EzValues] : n \in Lengths}}

\* frames whose pos_z column varies
OvershootFrames ==
    {Frame(UniformTime(0, 10, Len(p)), Constant(0, Len(p)), Constant(1, Len(p)), p) :
        p \in UNION {[1..n -> PosValues] : n \in Lengths}}

InitMetrics ==
    /\ pc = "call"
    /\ idx = 1
    /\ disk = [r \in Runs |-> IntactFile(r)]
    /\ dataframes = NoFrames
    /\ results = EmptyResults
    /\ results_df = <<>>
    /\ saved = <<>>
    /\ lastWrite = NoWrite
    /\ nout = 0
    /\ err = "none"
    /\ df \in SettleFrames \cup OvershootFrames
    /\ metrics = NoMetrics

\* lines 42-71: one call
CallComputeMetrics ==
    /\ pc = "call"
    /\ metrics' = compute_metrics(df)
    /\ pc' = "returned"
    /\ UNCHANGED <<idx, disk, dataframes, results, results_df, saved, lastWrite,
                   nout, err, df>>

SpecMetrics == InitMetrics /\ [][CallComputeMetrics]_vars

Returned == pc = "returned" /\ ~metrics.raised

----------------------------------------------------------------------------
(* The table built from an accumulator filled in an arbitrary order *)

\* the sequences of at most n distinct runs
RECURSIVE Orders(_)
Orders(n) ==
    IF n = 0 THEN {<<>>}
    ELSE LET shorter == Orders(n - 1)
         IN  shorter \cup {Append(o, r) : o \in {q \in shorter : Len(q) = n - 1}, r \in Runs}

DistinctOrders(n) == {o \in Orders(n) : \A a, b \in 1..Len(o) : a # b => o[a] # o[b]}

\* the accumulator after the runs of o were processed in that order
RECURSIVE Accumulate(_)
Accumulate(o) ==
    IF o = <<>> THEN EmptyResults
    ELSE ProcessRun(Accumulate(SubSeq(o, 1, Len(o) - 1)), o[Len(o)], IntactFile(o[Len(o)]))

InitSort ==
    /\ pc = "table"
    /\ idx = 1
    /\ disk = [r \in Runs |-> IntactFile(r)]
    /\ dataframes = NoFrames
    /\ \E o \in DistinctOrders(MaxRows) : results = Accumulate(o)
    /\ results_df = <<>>
    /\ saved = <<>>
    /\ lastWrite = NoWrite
    /\ nout = 0
    /\ err = "none"
    /\ Idle

SpecSort == InitSort /\ [][CreateTable]_vars


----------------------------------------------------------------------------
(* Properties *)

WriteErrors == {"OSError", "FallbackError"}

\* C1: whatever runs fail to load or to yield metrics, the script reaches its
\* final statement: no exception other than a failed output write ends it.
C1_ScriptAlwaysCompletes == pc = "crashed" => err \in WriteErrors

TableSaved == nout >= 1

\* the row run r has in the table when every log is intact
IntactRow(r) == RowOf(r, compute_metrics(Log(r)))

RowsOf(r, rows) ==
    {k \in 1..Len(rows) : rows[k]["Level"] = Capitalize(r[2])
                          /\ rows[k]["Controller"] = Label(r[1])}

\* C2: the saved table holds exactly one row for each run whose log is intact,
\* equal to the row that run has when no run fails, and no row for a run whose
\* loading or metric computation fails.
C2_SavedTableRows ==
    TableSaved =>
        /\ Len(saved) = Cardinality(Runs \ Failing)
        /\ \A r \in Failing : RowsOf(r, saved) = {}
        /\ \A r \in Runs \ Failing :
              /\ Cardinality(RowsOf(r, saved)) = 1
              /\ \A k \in RowsOf(r, saved) : saved[k] = IntactRow(r)

C2_Witness ==
    /\ TableSaved
    /\ Len(saved) = 8
    /\ \E r \in Failing : ~disk[r].exists

\* C3: whenever a primary write fails, for whatever reason, and the alternate
\* location is writable, the output lands in the alternate location and the
\* write does not end the script.
C3_PrimaryFailureFallsBack ==
    (lastWrite.primary # "ok" /\ lastWrite.alt = "ok") =>
        (lastWrite.loc = "fallback" /\ err \notin WriteErrors)

\* the starts i (from 0) of the full windows, i + window_size <= number of
\* samples, all of whose errors are inside the band
FullSettledWindows(f) ==
    {i \in 0..(NRows(f) - window_size(f)) : WindowSettled(f, i, window_size(f))}

MinOf(S) == CHOOSE i \in S : \A j \in S : i <= j

\* C4: when some full window is settled, the settling time is the timestamp at
\* the start of the first such window, the last full window included.
C4_FirstSettledWindow ==
    (Returned /\ FullSettledWindows(df) # {}) =>
        metrics.settling = df.time[MinOf(FullSettledWindows(df)) + 1]

ZeroError(f) == \A k \in 1..NRows(f) : f.ez[k] = 0

\* C5: a run whose error is identically zero, of any length, has the first
\* timestamp as settling time.
C5_ZeroErrorSettlesAtStart ==
    (Returned /\ ZeroError(df)) => metrics.settling = df.time[1]

\* C6: when no full window is settled the settling time is the last timestamp
\* of the run, and the settling time returned is never infinity.
C6_UnsettledIsLastTimestamp ==
    Returned =>
        /\ metrics.settling # INF
        /\ FullSettledWindows(df) = {} => metrics.settling = df.time[NRows(df)]

C6_Witness ==
    /\ Returned
    /\ NRows(df) >= 3
    /\ window_size(df) < NRows(df)
    /\ \A k \in 1..NRows(df) : Abs(df.ez[k]) = 20
    /\ metrics.settling = df.time[NRows(df)]
    /\ df.time[NRows(df)] # df.time[1]

\* r is an integer nearest to min_settling_duration / dt, for dt > 0
NearestToQuotient(f, r) ==
    2 * Abs(r * dt_num(f) - min_settling_duration * dt_den(f)) <= dt_num(f)

\* C7: the window of the settling scan is max(1, round(min_settling_duration / dt)),
\* rounding to the nearest integer (7 samples, not 6, for dt = 0.3 s).
C7_WindowRoundsToNearest ==
    (Returned /\ dt_num(df) > 0) =>
        \E r \in 0..(min_settling_duration * MaxLen) :
            /\ NearestToQuotient(df, r)
            /\ window_size(df) = IF r > 1 THEN r ELSE 1

\* the rank of a table row: (position of its level in dist_levels, position of
\* its controller in controllers)
RowRank(row) ==
    <<CHOOSE b \in 1..3 : Capitalize(dist_levels[b]) = row["Level"],
      CHOOSE a \in 1..3 : Label(controllers[a]) = row["Controller"]>>

RankBefore(x, y) == x[1] < y[1] \/ (x[1] = y[1] /\ x[2] < y[2])

\* C8: in whatever order the runs were appended, the table holds the same
\* rows ordered by level rank and, within a level, by controller rank.
C8_TableOrder ==
    pc = "save" =>
        /\ Len(results_df) = Len(results["Level"])
        /\ {results_df[k] : k \in 1..Len(results_df)}
              = {ToRows(results)[k] : k \in 1..Len(results["Level"])}
        /\ \A k \in 1..(Len(results_df) - 1) :
              RankBefore(RowRank(results_df[k]), RowRank(results_df[k + 1]))

C8_Witness ==
    /\ pc = "save"
    /\ Len(results_df) = MaxRows
    /\ results_df # ToRows(results)
    /\ RowRank(ToRows(results)[1])[1] > RowRank(ToRows(results)[2])[1]

\* C9: the overshoot is max(0, max(pos_z - target_z)): never negative, zero
\* when no sample is above the target, the largest excess otherwise.
C9_Overshoot ==
    Returned =>
        LET above == {k \in 1..NRows(df) : df.pos_z[k] > target_z} IN
        /\ metrics.overshoot >= 0
        /\ above = {} => metrics.overshoot = 0
        /\ above # {} =>
              /\ \E k \in above : metrics.overshoot = df.pos_z[k] - target_z
              /\ \A k \in above : df.pos_z[k] - target_z <= metrics.overshoot

C9_Witness ==
    /\ Returned
    /\ NRows(df) >= 2
    /\ \A k \in 1..NRows(df) : df.pos_z[k] < target_z
    /\ metrics.overshoot = 0

\* the runs whose iteration of the processing loop is over
Processed == IF pc = "load" THEN {RunOrder[k] : k \in 1..(idx - 1)} ELSE Runs

\* C10: after every iteration of the processing loop the seven column lists
\* have one length, the number of runs processed successfully so far.
C10_AppendAllOrNothing ==
    \A col \in Columns : Len(results[col]) = Cardinality(Processed \ Failing)

C10_Witness ==
    /\ pc = "load"
    /\ \E r \in Processed \cap Failing :
          disk[r].readable /\ disk[r].frame.cols = AllCols \ {"pos_z"}
    /\ Len(results["Overshoot (m)"]) >= 2
    /\ Processed # Runs

============================================================================
